---- MODULE Spec2Model ----
(***************************************************************************)
(* A model of the smawk crate (src/lib.rs): brute-force, recursive and     *)
(* SMAWK row/column minima, the online column-minima engine and the Monge  *)
(* verifier.  Vectors the code indexes (matrix, minima, result) are        *)
(* functions on 0..len-1; lists the code iterates over (rows, cols, stack) *)
(* are sequences of 0-based indices.                                       *)
(***************************************************************************)
EXTENDS Integers, Sequences, FiniteSets, TLC

(* ---------------------------- bounds ----------------------------------- *)
\* matrices of any content: at most MaxRows x MaxCols, entries in 0..MaxVal
MaxRows == 3
MaxCols == 3
MaxVal == 2
\* Monge matrices: at most MongeDim x MongeDim, entries in 0..MaxVal
MongeDim == 4
\* online engine: accessors of any content up to AnySize columns, above-diagonal
\* Monge accessors up to MaxSize columns, entries in 0..OnlineVal
AnySize == 5
MaxSize == 7
OnlineVal == 1
\* and sums of two Monge primitives up to WideSize columns
WideSize == 8

(* ---------------------------- helpers ---------------------------------- *)
\* vec![0; n]
ZeroVec(n) == [k \in 0..(n - 1) |-> 0]

\* (0..n).collect::<Vec<_>>() as a sequence of 0-based indices
RangeSeq(lo, hi) == [k \in 1..(hi - lo) |-> lo + k - 1]

\* An m x n array: its shape and its entries.
Array2(m, n, a) == [rows |-> m, cols |-> n, a |-> a]

\* matrix.genrows() / matrix.gencolumns(): lane i as a sequence
RowLane(mx, i) == [k \in 1..mx.cols |-> mx.a[<<i, k - 1>>]]
ColLane(mx, j) == [k \in 1..mx.rows |-> mx.a[<<k - 1, j>>]]

\* The outcome of a call: a value, or a panic.
Ok(v) == [panic |-> FALSE, val |-> v]
Panicked == [panic |-> TRUE, val |-> << >>]

(* ---------------------------- lane_minimum ----------------------------- *)
\* KeyLess with the index order reversed: ties go to the last index.
KeyLess_last(e1, i1, e2, i2) == e1 < e2 \/ (e1 = e2 /\ i1 > i2)

\* The tuple order of min_by_key's key (elem, idx).
KeyLess(e1, i1, e2, i2) == e1 < e2 \/ (e1 = e2 /\ i1 < i2)

\* Iterator::min_by_key: a left fold keeping the smaller key.
RECURSIVE MinByKey(_, _, _)
MinByKey(lane, k, best) ==
    IF k > Len(lane) THEN best
    ELSE MinByKey(lane, k + 1,
                  IF KeyLess(lane[k], k - 1, lane[best + 1], best) THEN k - 1 ELSE best)

\* lane_minimum: the index of the minimum, or a panic on an empty lane.
lane_minimum(lane) ==
    IF Len(lane) = 0 THEN Panicked ELSE Ok(MinByKey(lane, 2, 0))

\* map(lane_minimum).collect(): panics as soon as one lane does.
CollectMinima(lanes) ==
    IF \E k \in DOMAIN lanes : lane_minimum(lanes[k]).panic
    THEN Panicked
    ELSE Ok([k \in DOMAIN lanes |-> lane_minimum(lanes[k]).val])

brute_force_row_minima(mx) ==
    CollectMinima([i \in 0..(mx.rows - 1) |-> RowLane(mx, i)])

brute_force_column_minima(mx) ==
    CollectMinima([j \in 0..(mx.cols - 1) |-> ColLane(mx, j)])

(* ---------------------------- recursive_inner -------------------------- *)
\* A view is a window [r0, r1) x [c0, c1) of the matrix; `mo` is where the
\* minima slice handed to the call starts in the whole vector.
ViewLane(mx, v, isRow, mid) ==
    IF isRow
    THEN [k \in 1..(v.c1 - v.c0) |-> mx.a[<<v.r0 + mid, v.c0 + k - 1>>]]
    ELSE [k \in 1..(v.r1 - v.r0) |-> mx.a[<<v.r0 + k - 1, v.c0 + mid>>]]

\* TopLeft without the column (row) of the middle lane's minimum.
TopLeft_excl(v, isRow, mid, min_idx) ==
    IF isRow
    THEN [r0 |-> v.r0, r1 |-> v.r0 + mid, c0 |-> v.c0, c1 |-> v.c0 + min_idx]
    ELSE [r0 |-> v.r0, r1 |-> v.r0 + min_idx, c0 |-> v.c0, c1 |-> v.c0 + mid]

\* matrix.slice(&top_left)
TopLeft(v, isRow, mid, min_idx) ==
    IF isRow
    THEN [r0 |-> v.r0, r1 |-> v.r0 + mid, c0 |-> v.c0, c1 |-> v.c0 + min_idx + 1]
    ELSE [r0 |-> v.r0, r1 |-> v.r0 + min_idx + 1, c0 |-> v.c0, c1 |-> v.c0 + mid]

\* matrix.slice(&bot_right)
BotRight(v, isRow, mid, min_idx) ==
    IF isRow
    THEN [r0 |-> v.r0 + mid + 1, r1 |-> v.r1, c0 |-> v.c0 + min_idx, c1 |-> v.c1]
    ELSE [r0 |-> v.r0 + min_idx, r1 |-> v.r1, c0 |-> v.c0 + mid + 1, c1 |-> v.c1]

RECURSIVE recursive_inner(_, _, _, _, _, _)
recursive_inner(mx, v, isRow, offset, mo, minima) ==
    IF (v.r1 - v.r0) * (v.c1 - v.c0) = 0 THEN minima
    ELSE
      LET len == IF isRow THEN v.r1 - v.r0 ELSE v.c1 - v.c0
          mid == len \div 2
          min_idx == lane_minimum(ViewLane(mx, v, isRow, mid)).val
          m1 == [minima EXCEPT ![mo + mid] = offset + min_idx]
      IN IF mid = 0 THEN m1
         ELSE LET m2 == recursive_inner(mx, TopLeft(v, isRow, mid, min_idx),
                                        isRow, offset, mo, m1)
              IN recursive_inner(mx, BotRight(v, isRow, mid, min_idx),
                                 isRow, offset + min_idx, mo + mid + 1, m2)

WholeView(mx) == [r0 |-> 0, r1 |-> mx.rows, c0 |-> 0, c1 |-> mx.cols]

recursive_row_minima(mx) ==
    Ok(recursive_inner(mx, WholeView(mx), TRUE, 0, 0, ZeroVec(mx.rows)))

recursive_column_minima(mx) ==
    Ok(recursive_inner(mx, WholeView(mx), FALSE, 0, 0, ZeroVec(mx.cols)))

(* ---------------------------- smawk_inner ------------------------------ *)
\* `mat` is the accessor: a function on <<row, col>> pairs.  Every call of it
\* is recorded in `acc`.  A call of smawk_inner yields the updated minima,
\* the accesses made, and whether an index ran out of bounds (a panic).

\* ReducePop popping on >= instead of >.
RECURSIVE ReducePop_ge(_, _, _, _)
ReducePop_ge(mat, cols, r, st) ==
    IF Len(st.stack) = 0 THEN st
    ELSE LET c == cols[Len(st.stack)]
             top == st.stack[Len(st.stack)]
             acc2 == st.acc \cup {<<top, c>>, <<r, c>>}
         IN IF mat[<<top, c>>] >= mat[<<r, c>>]
            THEN ReducePop_ge(mat, cols, r,
                              [stack |-> SubSeq(st.stack, 1, Len(st.stack) - 1), acc |-> acc2])
            ELSE [stack |-> st.stack, acc |-> acc2]

\* The inner `while` of the reduce loop: pop while the top of the stack is
\* strictly greater than row r in the column aligned with the stack depth.
RECURSIVE ReducePop(_, _, _, _)
ReducePop(mat, cols, r, st) ==
    IF Len(st.stack) = 0 THEN st
    ELSE LET c == cols[Len(st.stack)]
             top == st.stack[Len(st.stack)]
             acc2 == st.acc \cup {<<top, c>>, <<r, c>>}
         IN IF mat[<<top, c>>] > mat[<<r, c>>]
            THEN ReducePop(mat, cols, r,
                           [stack |-> SubSeq(st.stack, 1, Len(st.stack) - 1), acc |-> acc2])
            ELSE [stack |-> st.stack, acc |-> acc2]

\* One iteration of `for r in rows`: pop, then push unless the stack is full.
ReduceStep(mat, cols, r, st) ==
    LET p == ReducePop(mat, cols, r, st)
    IN IF Len(p.stack) # Len(cols)
       THEN [stack |-> Append(p.stack, r), acc |-> p.acc]
       ELSE p

RECURSIVE ReduceRows(_, _, _, _, _)
ReduceRows(mat, rows, cols, k, st) ==
    IF k > Len(rows) THEN st
    ELSE ReduceRows(mat, rows, cols, k + 1, ReduceStep(mat, cols, rows[k], st))

\* The reduce phase: the surviving rows and the accesses made.
Reduce(mat, rows, cols) ==
    ReduceRows(mat, rows, cols, 1, [stack |-> << >>, acc |-> {}])

\* odd_cols keeping the columns at even positions (idx % 2 == 0) instead.
odd_cols_even(cols) == [k \in 1..((Len(cols) + 1) \div 2) |-> cols[2 * k - 1]]

\* The columns at odd positions of cols (idx % 2 == 1).
odd_cols(cols) == [k \in 1..(Len(cols) \div 2) |-> cols[2 * k]]

\* std::cmp::min on (value, row) pairs: the first argument unless the second
\* is strictly smaller.
MinPair(p, q) ==
    IF q[1] < p[1] \/ (q[1] = p[1] /\ q[2] < p[2]) THEN q ELSE p

\* The `while row != last_row` scan for one column; s = [r, row, pair, acc, panic].
RECURSIVE FillScan(_, _, _, _, _)
FillScan(mat, rows, col, last_row, s) ==
    IF s.panic \/ s.row = last_row THEN s
    ELSE IF s.r + 1 >= Len(rows)
         THEN [s EXCEPT !.panic = TRUE]
         ELSE LET row == rows[s.r + 2]
              IN FillScan(mat, rows, col, last_row,
                          [r |-> s.r + 1, row |-> row,
                           pair |-> MinPair(s.pair, <<mat[<<row, col>>], row>>),
                           acc |-> s.acc \cup {<<row, col>>},
                           panic |-> FALSE])

\* LastRow stopping the last column's scan at the first row.
LastRow_first(rows, cols, c, mins) ==
    IF c = Len(cols) - 1 THEN rows[1] ELSE mins[cols[c + 2]]

\* let last_row = ..: where the scan of the column at position c stops: at
\* the last row for the last column, else at the minimum of the next column.
LastRow(rows, cols, c, mins) ==
    IF c = Len(cols) - 1 THEN rows[Len(rows)] ELSE mins[cols[c + 2]]

\* The body of the fill-in loop for the column at position c (0-based, even)
\* of cols; f = [minima, r, acc, panic].
FillColumn(mat, rows, cols, c, f) ==
    IF f.r >= Len(rows) THEN [f EXCEPT !.panic = TRUE]
    ELSE LET col == cols[c + 1]
             row == rows[f.r + 1]
             last_row == LastRow(rows, cols, c, f.minima)
             s == FillScan(mat, rows, col, last_row,
                           [r |-> f.r, row |-> row,
                            pair |-> <<mat[<<row, col>>], row>>,
                            acc |-> f.acc \cup {<<row, col>>},
                            panic |-> FALSE])
         IN IF s.panic
            THEN [f EXCEPT !.panic = TRUE, !.acc = s.acc]
            ELSE [minima |-> [f.minima EXCEPT ![col] = s.pair[2]],
                  r |-> s.r, acc |-> s.acc, panic |-> FALSE]

\* The fill-in loop over the even positions of cols.
RECURSIVE FillIn(_, _, _, _, _)
FillIn(mat, rows, cols, c, f) ==
    IF f.panic \/ c >= Len(cols) THEN f
    ELSE FillIn(mat, rows, cols, c + 2, FillColumn(mat, rows, cols, c, f))

RECURSIVE smawk_inner(_, _, _, _)
smawk_inner(mat, rows, cols, minima) ==
    IF Len(cols) = 0 THEN [minima |-> minima, acc |-> {}, panic |-> FALSE]
    ELSE LET red == Reduce(mat, rows, cols)
             sub == smawk_inner(mat, red.stack, odd_cols(cols), minima)
         IN IF sub.panic
            THEN [sub EXCEPT !.acc = red.acc \cup sub.acc]
            ELSE LET f == FillIn(mat, red.stack, cols, 0,
                                 [minima |-> sub.minima, r |-> 0,
                                  acc |-> red.acc \cup sub.acc, panic |-> FALSE])
                 IN [minima |-> f.minima, acc |-> f.acc, panic |-> f.panic]

\* The closure |j, i| matrix[[i, j]] of smawk_row_minima.
Transposed(mx) ==
    [p \in (0..(mx.cols - 1)) \X (0..(mx.rows - 1)) |-> mx.a[<<p[2], p[1]>>]]

SmawkOutcome(s) == IF s.panic THEN Panicked ELSE Ok(s.minima)

smawk_row_minima(mx) ==
    SmawkOutcome(smawk_inner(Transposed(mx), RangeSeq(0, mx.cols),
                             RangeSeq(0, mx.rows), ZeroVec(mx.rows)))

smawk_column_minima(mx) ==
    SmawkOutcome(smawk_inner(mx.a, RangeSeq(0, mx.rows),
                             RangeSeq(0, mx.cols), ZeroVec(mx.cols)))

(* ---------------------------- is_monge --------------------------------- *)
\* A PrimInt type: its width and signedness.
IntType(bits, signed) == [bits |-> bits, signed |-> signed]
TMin(ty) == IF ty.signed THEN 0 - 2 ^ (ty.bits - 1) ELSE 0
TMax(ty) == IF ty.signed THEN 2 ^ (ty.bits - 1) - 1 ELSE 2 ^ ty.bits - 1
TValues(ty) == TMin(ty)..TMax(ty)

Some(v) == [some |-> TRUE, v |-> v]
None == [some |-> FALSE, v |-> 0]

\* x.checked_add(&y): None when the exact sum is not representable.
checked_add(ty, x, y) ==
    IF x + y < TMin(ty) \/ x + y > TMax(ty) THEN None ELSE Some(x + y)

\* A saturating sum in place of the wrapping one.
wrapping_add_sat(ty, x, y) ==
    IF x + y > TMax(ty) THEN TMax(ty) ELSE IF x + y < TMin(ty) THEN TMin(ty) ELSE x + y

\* x.wrapping_add(&y): the sum modulo 2^bits, brought back into the type.
wrapping_add(ty, x, y) ==
    ((x + y - TMin(ty)) % (2 ^ ty.bits)) + TMin(ty)

\* WindowOk with the two one-sided overflow verdicts exchanged.
WindowOk_swapped(mx, ty, i, j) ==
    LET x == mx.a[<<i, j>>]
        y == mx.a[<<i + 1, j + 1>>]
        z == mx.a[<<i, j + 1>>]
        w == mx.a[<<i + 1, j>>]
        a == checked_add(ty, x, y)
        b == checked_add(ty, z, w)
    IN CASE a.some /\ b.some -> a.v <= b.v
         [] a.some /\ ~b.some -> FALSE
         [] ~a.some /\ b.some -> TRUE
         [] OTHER -> wrapping_add(ty, x, y) <= wrapping_add(ty, z, w)

\* The closure of is_monge on the window whose top-left corner is (i, j).
WindowOk(mx, ty, i, j) ==
    LET x == mx.a[<<i, j>>]
        y == mx.a[<<i + 1, j + 1>>]
        z == mx.a[<<i, j + 1>>]
        w == mx.a[<<i + 1, j>>]
        a == checked_add(ty, x, y)
        b == checked_add(ty, z, w)
    IN CASE a.some /\ b.some -> a.v <= b.v
         [] a.some /\ ~b.some -> TRUE
         [] ~a.some /\ b.some -> FALSE
         [] OTHER -> wrapping_add(ty, x, y) <= wrapping_add(ty, z, w)

\* is_monge missing the last row of windows.
is_monge_short(mx, ty) ==
    \A i \in 0..(mx.rows - 3) : \A j \in 0..(mx.cols - 2) : WindowOk(mx, ty, i, j)

\* matrix.windows([2, 2]).into_iter().all(..)
is_monge(mx, ty) ==
    \A i \in 0..(mx.rows - 2) : \A j \in 0..(mx.cols - 2) : WindowOk(mx, ty, i, j)

(* ---------------------------- state ------------------------------------ *)
VARIABLES
    matrix,     \* the Array2 handed to the library (behind the accessor, online)
    ty,         \* its element type
    call,       \* the library function called ("none" before any call)
    out,        \* what that call returned
    pc,         \* online_column_minima: "idle", "loop", "done" or "panic"
    size,       \* online_column_minima's arguments
    initial,
    result,     \* and its local state
    finished,
    base,
    tentative,
    taken,      \* the case the last loop iteration took (0 before the first)
    acc,        \* the <<i, j>> the last iteration evaluated m![i, j] at
    prefixes,   \* the slices &result[..finished + 1] it handed to the accessor
    calledAt,   \* the value of `finished` during those calls
    spc,        \* smawk_inner step by step: "idle", "call", "recurse", "fill",
                \* "done" or "panic"
    frames,     \* its call stack: the rows, cols and stack of each activation
    mvec        \* the minima slice the activations share

mvars == <<matrix, ty, call, out>>
ovars == <<pc, size, initial, result, finished, base, tentative, taken, acc,
           prefixes, calledAt>>
svars == <<spc, frames, mvec>>
vars == <<mvars, ovars, svars>>

\* The element type of the test matrices (Array2<u8>).
U8Bits == 8
u8 == IntType(U8Bits, FALSE)

Cells(m, n) == (0..(m - 1)) \X (0..(n - 1))

(* ---------------------------- the documented properties ---------------- *)
\* The Monge property, in exact integers:
\* M[i, j] + M[i', j'] <= M[i, j'] + M[i', j] for all i < i' and j < j'.
MongeProperty(mx) ==
    \A i \in 0..(mx.rows - 1) : \A i2 \in (i + 1)..(mx.rows - 1) :
    \A j \in 0..(mx.cols - 1) : \A j2 \in (j + 1)..(mx.cols - 1) :
        mx.a[<<i, j>>] + mx.a[<<i2, j2>>] <= mx.a[<<i, j2>>] + mx.a[<<i2, j>>]

\* Totally monotone, as the crate documents it:
\* M[i, j] > M[i, j'] => M[i', j] > M[i', j'] for all i < i' and j < j'.
TotallyMonotone(mx) ==
    \A i \in 0..(mx.rows - 1) : \A i2 \in (i + 1)..(mx.rows - 1) :
    \A j \in 0..(mx.cols - 1) : \A j2 \in (j + 1)..(mx.cols - 1) :
        mx.a[<<i, j>>] > mx.a[<<i, j2>>] => mx.a[<<i2, j>>] > mx.a[<<i2, j2>>]

\* matrix.reversed_axes()
reversed_axes(mx) ==
    Array2(mx.cols, mx.rows, [p \in Cells(mx.cols, mx.rows) |-> mx.a[<<p[2], p[1]>>]])

(* ---------------------------- inputs ----------------------------------- *)
\* Every m x n matrix of entries in 0..MaxVal.
Matrices(m, n) == {Array2(m, n, a) : a \in [Cells(m, n) -> 0..MaxVal]}

\* Two consecutive rows keep the Monge property.
RowsMonge(r1, r2) ==
    \A j \in 1..(Len(r1) - 1) : r1[j] + r2[j + 1] <= r1[j + 1] + r2[j]

\* The Monge matrices of m rows of n entries in 0..MaxVal, as lists of rows.
RECURSIVE MongeRowLists(_, _)
MongeRowLists(m, n) ==
    IF m = 0 THEN {<< >>}
    ELSE UNION {{Append(rs, row) :
                    row \in {r \in [1..n -> 0..MaxVal] :
                                Len(rs) = 0 \/ RowsMonge(rs[Len(rs)], r)}}
                : rs \in MongeRowLists(m - 1, n)}

FromRows(m, n, rs) ==
    Array2(m, n, [p \in Cells(m, n) |-> rs[p[1] + 1][p[2] + 1]])

\* Every m x n Monge matrix of entries in 0..MaxVal.
MongeMatrices(m, n) == {FromRows(m, n, rs) : rs \in MongeRowLists(m, n)}

\* The width of the narrow integer types the verifier is run on.
Bits == 3
NarrowTypes == {IntType(Bits, FALSE), IntType(Bits, TRUE)}

\* One 2 x 2 window of every content, and the constant matrices.
Windows(t) == {Array2(2, 2, a) : a \in [Cells(2, 2) -> TValues(t)]}
ConstantMatrices(t, m, n) ==
    {Array2(m, n, [p \in Cells(m, n) |-> c]) : c \in TValues(t)}

\* tests::is_monge_handles_overflow: a 3 x 4 matrix of 200u8.
OverflowTestValue == 200
OverflowTestMatrix == Array2(3, 4, [p \in Cells(3, 4) |-> OverflowTestValue])

\* The accessor |_, i, j| matrix[[i, j]] over a size x size matrix of which
\* only the entries above the diagonal matter (the others are 0 here).
UpperCells(n) == {p \in Cells(n, n) : p[1] < p[2]}
FromUpper(n, u) ==
    Array2(n, n, [p \in Cells(n, n) |-> IF p[1] < p[2] THEN u[p] ELSE 0])
UpperAny(n) == {FromUpper(n, u) : u \in [UpperCells(n) -> 0..OnlineVal]}

\* Two consecutive columns of the part above the diagonal keep the Monge
\* property (column j holds rows 0..j-1).
ColsMonge(c1, c2) ==
    \A k \in 1..(Len(c1) - 1) : c1[k] + c2[k + 1] <= c2[k] + c1[k + 1]

\* The above-diagonal Monge matrices of size n, as lists of columns 1..n-1.
RECURSIVE MongeColLists(_)
MongeColLists(n) ==
    IF n <= 1 THEN {<< >>}
    ELSE UNION {{Append(cs, col) :
                    col \in {c \in [1..(n - 1) -> 0..OnlineVal] :
                                Len(cs) = 0 \/ ColsMonge(cs[Len(cs)], c)}}
                : cs \in MongeColLists(n - 1)}

FromCols(n, cs) ==
    Array2(n, n, [p \in Cells(n, n) |->
                    IF p[1] < p[2] THEN cs[p[2]][p[1] + 1] ELSE 0])
UpperMonge(n) == {FromCols(n, cs) : cs \in MongeColLists(n)}

\* The Monge property of the part above the diagonal, in exact integers.
UpperMongeProperty(mx) ==
    \A i \in 0..(mx.rows - 1) : \A i2 \in (i + 1)..(mx.rows - 1) :
    \A j \in (i2 + 1)..(mx.cols - 1) : \A j2 \in (j + 1)..(mx.cols - 1) :
        mx.a[<<i, j>>] + mx.a[<<i2, j2>>] <= mx.a[<<i, j2>>] + mx.a[<<i2, j>>]

\* MongePrim::to_matrix for UpperRightOnes and LowerLeftOnes with the random
\* i, j in 0..n: slice_mut(s![..i, -j..]) and slice_mut(s![-i.., ..j]) filled
\* with ones (a slice bound of -0 is 0: the whole axis).
UpperRightOnes(n, i, j) ==
    [p \in Cells(n, n) |->
        IF p[1] < i /\ p[2] >= (IF j = 0 THEN 0 ELSE n - j) THEN 1 ELSE 0]
LowerLeftOnes(n, i, j) ==
    [p \in Cells(n, n) |->
        IF p[1] >= (IF i = 0 THEN 0 ELSE n - i) /\ p[2] < j THEN 1 ELSE 0]

MongePrims(n) ==
    {UpperRightOnes(n, i, j) : i, j \in 0..n} \cup {LowerLeftOnes(n, i, j) : i, j \in 0..n}

\* random_monge_matrix summing two primitives, as online_agree uses it: only
\* the part above the diagonal is kept.
PrimSum(n, ps) ==
    FromUpper(n, [p \in UpperCells(n) |-> ps[1][p] + ps[2][p]])
RandomMonge(n) == {PrimSum(n, ps) : ps \in MongePrims(n) \X MongePrims(n)}

\* The initial values of the tests (online_1x1.., online_agree).
Initials == {0, 42}

(* ---------------------------- online_column_minima --------------------- *)
VLen(v) == Cardinality(DOMAIN v)

\* Vec::push
Push(v, x) == [k \in 0..VLen(v) |-> IF k < VLen(v) THEN v[k] ELSE x]

\* &result[..n]
Slice(v, n) == [k \in 0..(n - 1) |-> v[k]]

\* The two assertions of the m! macro.
AssertsHold(n, i, j) == i < j /\ i < n /\ j < n

\* The iteration panics when an assertion of m! fails, or when an index or
\* a slice runs out of bounds.
Panics(n, res, fin, accs, oob) ==
    \/ oob
    \/ fin + 1 > VLen(res)
    \/ \E p \in accs : ~AssertsHold(n, p[1], p[2])

\* MergeEntry never overwriting a tentative minimum.
MergeEntry_keep(res, col, row, v) ==
    IF col >= VLen(res) THEN Push(res, <<row, v>>)
    ELSE res

\* The body of `for col in cols`: push a new column's minimum, or overwrite
\* the tentative one when the new value is strictly smaller.
MergeEntry(res, col, row, v) ==
    IF col >= VLen(res) THEN Push(res, <<row, v>>)
    ELSE IF v < res[col][2] THEN [res EXCEPT ![col] = <<row, v>>]
         ELSE res

\* The loop `for col in cols` of the first case, from position k of cols;
\* st = [result, acc, prefixes].
RECURSIVE MergeCols(_, _, _, _, _, _)
MergeCols(mat, cols, k, minima, fin, st) ==
    IF k > Len(cols) THEN st
    ELSE LET col == cols[k]
             row == minima[col]
             v == mat[<<row, col>>]
             res == MergeEntry(st.result, col, row, v)
         IN MergeCols(mat, cols, k + 1, minima, fin,
                      [result |-> res,
                       acc |-> st.acc \cup {<<row, col>>},
                       prefixes |-> st.prefixes \cup {Slice(st.result, fin + 1)}])

\* InLoop leaving the loop one iteration early.
InLoop_short == pc = "loop" /\ finished < size - 2

InLoop == pc = "loop" /\ finished < size - 1

\* What every iteration does whatever its case.
Iterate(case, accs, pres, oob) ==
    /\ taken' = case
    /\ acc' = accs
    /\ prefixes' = pres
    /\ calledAt' = finished
    /\ pc' = IF Panics(size, result, finished, accs, oob) THEN "panic" ELSE "loop"
    /\ UNCHANGED <<mvars, size, initial, svars>>

\* Case1Rows running one row too far, up to row i = finished + 1.
Case1Rows_over(b, fin) == RangeSeq(b, fin + 2)

\* (base..finished + 1).collect()
Case1Rows(b, fin) == RangeSeq(b, fin + 1)

\* Case1Tentative leaving tentative at `finished`, one short of the new
\* value of `finished`.
Case1Tentative_short(fin, nrows, n) == fin

\* std::cmp::min(finished + rows.len(), size - 1)
Case1Tentative(fin, nrows, n) ==
    IF fin + nrows < n - 1 THEN fin + nrows ELSE n - 1

\* Case1Cols starting one column early, at `finished`.
Case1Cols_early(fin, t) == RangeSeq(fin, t + 1)

\* (finished + 1..tentative + 1).collect()
Case1Cols(fin, t) == RangeSeq(fin + 1, t + 1)

\* The conditions of the if-chain of the loop body, with i = finished + 1.
\* A read of result past its end panics in the case whose condition reads it.
Case1Cond == finished + 1 > tentative

Case2Cond ==
    /\ ~Case1Cond
    /\ finished + 1 < VLen(result) =>
          matrix.a[<<finished, finished + 1>>] < result[finished + 1][2]

\* Case3Cond taking the third case only when row i-1 is strictly worse.
Case3Cond_gt ==
    /\ ~Case1Cond
    /\ ~Case2Cond
    /\ tentative < VLen(result) =>
          matrix.a[<<finished, tentative>>] > result[tentative][2]

Case3Cond ==
    /\ ~Case1Cond
    /\ ~Case2Cond
    /\ tentative < VLen(result) =>
          matrix.a[<<finished, tentative>>] >= result[tentative][2]

Case4Cond == ~Case1Cond /\ ~Case2Cond /\ ~Case3Cond

\* First case: i > tentative.  smawk_inner on rows base..finished and columns
\* finished+1..tentative, merged into result.
OnlineCase1 ==
    /\ InLoop
    /\ Case1Cond
    /\ LET i == finished + 1
           rows == Case1Rows(base, finished)
           t2 == Case1Tentative(finished, Len(rows), size)
           cols == Case1Cols(finished, t2)
           sm == smawk_inner(matrix.a, rows, cols, ZeroVec(t2 + 1))
           mg == MergeCols(matrix.a, cols, 1, sm.minima, finished,
                           [result |-> result, acc |-> sm.acc,
                            prefixes |-> IF sm.acc = {} THEN {}
                                         ELSE {Slice(result, finished + 1)}])
       IN /\ tentative' = t2
          /\ result' = IF sm.panic THEN result ELSE mg.result
          /\ finished' = i
          /\ base' = base
          /\ Iterate(1, IF sm.panic THEN sm.acc ELSE mg.acc,
                     IF sm.panic THEN {} ELSE mg.prefixes, sm.panic)

\* Second case: the diagonal entry M[i-1, i] beats the tentative minimum of
\* column i.
OnlineCase2 ==
    /\ InLoop
    /\ Case2Cond
    /\ LET i == finished + 1
           diag == matrix.a[<<i - 1, i>>]
       IN IF i < VLen(result)
          THEN /\ result' = [result EXCEPT ![i] = <<i - 1, diag>>]
               /\ base' = i - 1
               /\ tentative' = i
               /\ finished' = i
               /\ Iterate(2, {<<i - 1, i>>}, {Slice(result, finished + 1)}, FALSE)
          ELSE \* result[i] is out of bounds
               /\ UNCHANGED <<result, base, tentative, finished>>
               /\ Iterate(2, {<<i - 1, i>>}, {Slice(result, finished + 1)}, TRUE)

\* Third case: row i-1 supplies no minimum up to tentative.
OnlineCase3 ==
    /\ InLoop
    /\ Case3Cond
    /\ LET i == finished + 1
       IN IF tentative < VLen(result)
          THEN /\ finished' = i
               /\ UNCHANGED <<result, base, tentative>>
               /\ Iterate(3, {<<i - 1, i>>, <<i - 1, tentative>>},
                          {Slice(result, finished + 1)}, FALSE)
          ELSE \* result[tentative] is out of bounds
               /\ UNCHANGED <<result, base, tentative, finished>>
               /\ Iterate(3, {<<i - 1, i>>, <<i - 1, tentative>>},
                          {Slice(result, finished + 1)}, TRUE)

\* Fourth case: a new column minimum at tentative.
OnlineCase4 ==
    /\ InLoop
    /\ Case4Cond
    /\ LET i == finished + 1
       IN /\ base' = i - 1
          /\ tentative' = i
          /\ finished' = i
          /\ UNCHANGED result
          /\ Iterate(4, {<<i - 1, i>>, <<i - 1, tentative>>},
                     {Slice(result, finished + 1)}, FALSE)

\* The loop ends and the function returns result.
OnlineReturn ==
    /\ pc = "loop"
    /\ ~(finished < size - 1)
    /\ pc' = "done"
    /\ out' = Ok(result)
    /\ UNCHANGED <<matrix, ty, call, size, initial, result, finished, base,
                   tentative, taken, acc, prefixes, calledAt, svars>>

(* ---------------------------- the other calls -------------------------- *)
NoOutcome == [panic |-> FALSE, val |-> << >>]

Call(name, outcome) ==
    /\ call = "none"
    /\ call' = name
    /\ out' = outcome
    /\ UNCHANGED <<matrix, ty, ovars, svars>>

BruteForceRow == Call("brute_force_row_minima", brute_force_row_minima(matrix))
BruteForceColumn == Call("brute_force_column_minima", brute_force_column_minima(matrix))
RecursiveRow == Call("recursive_row_minima", recursive_row_minima(matrix))
RecursiveColumn == Call("recursive_column_minima", recursive_column_minima(matrix))
SmawkRow == Call("smawk_row_minima", smawk_row_minima(matrix))
SmawkColumn == Call("smawk_column_minima", smawk_column_minima(matrix))
IsMonge == Call("is_monge", Ok(is_monge(matrix, ty)))

(* ---------------------------- specifications --------------------------- *)
OnlineIdle ==
    /\ pc = "idle"
    /\ size = 0
    /\ initial = 0
    /\ result = << >>
    /\ finished = 0
    /\ base = 0
    /\ tentative = 0
    /\ taken = 0
    /\ acc = {}
    /\ prefixes = {}
    /\ calledAt = 0

SmawkIdle ==
    /\ spc = "idle"
    /\ frames = << >>
    /\ mvec = << >>

\* The row and column minima of a matrix, by each strategy, and is_monge on
\* it; the matrix is any small matrix or any Monge matrix a little larger.
Init ==
    /\ \/ \E m \in 0..MaxRows : \E n \in 0..MaxCols : matrix \in Matrices(m, n)
       \/ \E m \in 0..MongeDim : \E n \in 0..MongeDim : matrix \in MongeMatrices(m, n)
    /\ ty = u8
    /\ call = "none"
    /\ out = NoOutcome
    /\ OnlineIdle
    /\ SmawkIdle

Next ==
    \/ BruteForceRow
    \/ BruteForceColumn
    \/ RecursiveRow
    \/ RecursiveColumn
    \/ SmawkRow
    \/ SmawkColumn
    \/ IsMonge

Spec == Init /\ [][Next]_vars

\* is_monge on matrices of a narrow integer type, where the corner sums
\* overflow, and on the overflow test's matrix.
InitVerifier ==
    /\ \/ /\ ty \in NarrowTypes
          /\ \/ matrix \in Windows(ty)
             \/ \E m \in 0..MaxRows : \E n \in 0..MaxCols :
                    matrix \in ConstantMatrices(ty, m, n)
       \/ /\ ty = u8
          /\ matrix = OverflowTestMatrix
    /\ call = "none"
    /\ out = NoOutcome
    /\ OnlineIdle
    /\ SmawkIdle

NextVerifier == IsMonge

SpecVerifier == InitVerifier /\ [][NextVerifier]_vars

\* online_column_minima(initial, size, |_, i, j| matrix[[i, j]]), one loop
\* iteration at a time.
InitOnline ==
    /\ \/ /\ size \in 1..AnySize
          /\ matrix \in UpperAny(size)
       \/ /\ size \in 1..MaxSize
          /\ matrix \in UpperMonge(size)
       \/ /\ size \in 1..WideSize
          /\ matrix \in RandomMonge(size)
    /\ ty = u8
    /\ initial \in Initials
    /\ call = "online_column_minima"
    /\ out = NoOutcome
    /\ pc = "loop"
    /\ result = (0 :> <<0, initial>>)
    /\ finished = 0
    /\ base = 0
    /\ tentative = 0
    /\ taken = 0
    /\ acc = {}
    /\ prefixes = {}
    /\ calledAt = 0
    /\ SmawkIdle

NextOnline ==
    \/ OnlineCase1
    \/ OnlineCase2
    \/ OnlineCase3
    \/ OnlineCase4
    \/ OnlineReturn

SpecOnline == InitOnline /\ [][NextOnline]_vars

\* In the states at the loop an iteration or the return can be taken.
AtLoop == pc = "loop"

\* online_column_minima as the program runs it: the loop keeps iterating
\* until the function returns; nothing suspends it.  This is weak fairness
\* of NextOnline, with AtLoop for ENABLED <<NextOnline>>_vars.
SpecOnlineLive ==
    /\ InitOnline
    /\ [][NextOnline]_vars
    /\ ([]<>(~AtLoop) \/ []<><<NextOnline>>_vars)

\* ---------------------------------------------------------------------------
\* smawk_inner one phase at a time.  Each activation of smawk_inner is a frame
\* [rows, cols, stack]; the minima slice is shared by all of them.

\* The closure the entry point hands to smawk_inner.
Accessor ==
    IF call = "smawk_row_minima" THEN Transposed(matrix) ELSE matrix.a

\* The number of rows and of columns smawk_inner sees.
InnerRows(name, mx) == IF name = "smawk_row_minima" THEN mx.cols ELSE mx.rows
InnerCols(name, mx) == IF name = "smawk_row_minima" THEN mx.rows ELSE mx.cols

Frame(rws, cls, st) == [rows |-> rws, cols |-> cls, stack |-> st]

TopFrame == frames[Len(frames)]

\* An activation returns to its caller, or to the entry point.
Return(mins) ==
    /\ frames' = SubSeq(frames, 1, Len(frames) - 1)
    /\ mvec' = mins
    /\ spc' = IF Len(frames) = 1 THEN "done" ELSE "fill"
    /\ out' = IF Len(frames) = 1 THEN Ok(mins) ELSE out

\* if cols.is_empty() { return; }
SmawkReturnEmpty ==
    /\ spc = "call"
    /\ TopFrame.cols = << >>
    /\ Return(mvec)
    /\ UNCHANGED <<matrix, ty, call, ovars>>

\* The reduce loop over `rows`.
SmawkReduce ==
    /\ spc = "call"
    /\ TopFrame.cols # << >>
    /\ frames' = [frames EXCEPT ![Len(frames)].stack =
                      Reduce(Accessor, TopFrame.rows, TopFrame.cols).stack]
    /\ spc' = "recurse"
    /\ UNCHANGED <<mvars, ovars, mvec>>

\* let rows = &stack; ..; smawk_inner(matrix, rows, &odd_cols, minima);
SmawkRecurse ==
    /\ spc = "recurse"
    /\ frames' = Append(frames, Frame(TopFrame.stack, odd_cols(TopFrame.cols), << >>))
    /\ spc' = "call"
    /\ UNCHANGED <<mvars, ovars, mvec>>

\* The fill-in loop of the activation the recursive call returned to.
SmawkFill ==
    /\ spc = "fill"
    /\ LET f == FillIn(Accessor, TopFrame.stack, TopFrame.cols, 0,
                       [minima |-> mvec, r |-> 0, acc |-> {}, panic |-> FALSE])
       IN IF f.panic
          THEN /\ spc' = "panic"
               /\ out' = Panicked
               /\ UNCHANGED <<frames, mvec>>
          ELSE Return(f.minima)
    /\ UNCHANGED <<matrix, ty, call, ovars>>

InitSmawk ==
    /\ \/ \E m \in 0..MaxRows : \E n \in 0..MaxCols : matrix \in Matrices(m, n)
       \/ \E m \in 0..MongeDim : \E n \in 0..MongeDim : matrix \in MongeMatrices(m, n)
    /\ ty = u8
    /\ call \in {"smawk_row_minima", "smawk_column_minima"}
    /\ out = NoOutcome
    /\ OnlineIdle
    /\ spc = "call"
    /\ frames = <<Frame(RangeSeq(0, InnerRows(call, matrix)),
                        RangeSeq(0, InnerCols(call, matrix)), << >>)>>
    /\ mvec = ZeroVec(InnerCols(call, matrix))

NextSmawk ==
    \/ SmawkReturnEmpty
    \/ SmawkReduce
    \/ SmawkRecurse
    \/ SmawkFill

SpecSmawk == InitSmawk /\ [][NextSmawk]_vars

(* ======================================================================= *)
(* The claims.                                                             *)
(* ======================================================================= *)
RowCalls == {"brute_force_row_minima", "recursive_row_minima", "smawk_row_minima"}
ColumnCalls ==
    {"brute_force_column_minima", "recursive_column_minima", "smawk_column_minima"}

NonEmpty(mx) == mx.rows >= 1 /\ mx.cols >= 1

\* idx is the smallest index among the lane's tied minima.
IsLeftmostMinimum(lane, idx) ==
    /\ idx + 1 \in DOMAIN lane
    /\ \A k \in DOMAIN lane :
          /\ lane[idx + 1] <= lane[k]
          /\ k < idx + 1 => lane[k] > lane[idx + 1]

\* v is the vector of the left-most row (column) minima of mx.
IsRowMinima(mx, v) ==
    /\ DOMAIN v = 0..(mx.rows - 1)
    /\ \A i \in 0..(mx.rows - 1) : IsLeftmostMinimum(RowLane(mx, i), v[i])
IsColumnMinima(mx, v) ==
    /\ DOMAIN v = 0..(mx.cols - 1)
    /\ \A j \in 0..(mx.cols - 1) : IsLeftmostMinimum(ColLane(mx, j), v[j])

\* C1: on every Monge matrix with at least one row and one column the three
\* row-minima functions return the same vector, and so do the three
\* column-minima functions; each entry is the smallest index among the
\* lane's tied minima.
C1_ImplementationsAgree ==
    (MongeProperty(matrix) /\ NonEmpty(matrix)) =>
        /\ call \in RowCalls =>
              /\ out = brute_force_row_minima(matrix)
              /\ ~out.panic /\ IsRowMinima(matrix, out.val)
        /\ call \in ColumnCalls =>
              /\ out = brute_force_column_minima(matrix)
              /\ ~out.panic /\ IsColumnMinima(matrix, out.val)

\* SMAWK has run on a Monge matrix of the largest size whose row minima are
\* not all in one column, one of them among tied entries.
C1_Witness ==
    /\ call = "smawk_row_minima"
    /\ MongeProperty(matrix)
    /\ matrix.rows = MongeDim /\ matrix.cols = MongeDim
    /\ ~out.panic
    /\ \E i, k \in DOMAIN out.val : out.val[i] # out.val[k]
    /\ \E i \in DOMAIN out.val : \E j \in 0..(matrix.cols - 1) :
          j # out.val[i] /\ matrix.a[<<i, j>>] = matrix.a[<<i, out.val[i]>>]

\* C3: on every matrix with m rows and n >= 1 columns, monotone or not,
\* brute_force_row_minima returns a vector of length m whose entry i is the
\* smallest column index holding the minimum of row i; and symmetrically
\* brute_force_column_minima on every matrix with at least one row.
C3_BruteForce ==
    /\ (call = "brute_force_row_minima" /\ matrix.cols >= 1) =>
          ~out.panic /\ IsRowMinima(matrix, out.val)
    /\ (call = "brute_force_column_minima" /\ matrix.rows >= 1) =>
          ~out.panic /\ IsColumnMinima(matrix, out.val)

\* Brute force has run on a matrix that is not monotone and has a row whose
\* minimum is repeated.
C3_Witness ==
    /\ call = "brute_force_row_minima"
    /\ matrix.rows = MaxRows /\ matrix.cols = MaxCols
    /\ ~TotallyMonotone(matrix)
    /\ ~out.panic
    /\ \E i \in DOMAIN out.val : \E j \in (out.val[i] + 1)..(matrix.cols - 1) :
          matrix.a[<<i, j>>] = matrix.a[<<i, out.val[i]>>]

\* No corner sum of the matrix leaves the value type.
NoOverflow(mx, t) ==
    \A i, i2 \in 0..(mx.rows - 1) : \A j, j2 \in 0..(mx.cols - 1) :
        mx.a[<<i, j>>] + mx.a[<<i2, j2>>] \in TValues(t)

\* C4: when no corner sum overflows, is_monge (which looks at the adjacent
\* 2 x 2 windows only) returns true exactly when the Monge inequality holds
\* for all i < i' and j < j', adjacent or not; with fewer than two rows or
\* two columns it returns true.
C4_AdjacentWindowsSuffice ==
    (call = "is_monge" /\ NoOverflow(matrix, ty)) =>
        /\ out = Ok(MongeProperty(matrix))
        /\ (matrix.rows < 2 \/ matrix.cols < 2) => out = Ok(TRUE)

\* is_monge has accepted a 3 x 3 matrix that is not constant.
C4_Witness ==
    /\ call = "is_monge"
    /\ matrix.rows >= 3 /\ matrix.cols >= 3
    /\ out = Ok(TRUE)
    /\ \E p, q \in DOMAIN matrix.a : matrix.a[p] # matrix.a[q]

\* C5, as claimed: on every matrix with non-empty lanes, monotone or not,
\* the recursive functions return the same vector as the brute-force ones.
C5_RecursiveAlwaysCorrect ==
    NonEmpty(matrix) =>
        /\ call = "recursive_row_minima" => out = brute_force_row_minima(matrix)
        /\ call = "recursive_column_minima" => out = brute_force_column_minima(matrix)

\* C5, amended: on every matrix with non-empty lanes that is totally monotone
\* in the direction of the request (the documented condition for row minima,
\* the same condition on the transposed matrix for column minima) the
\* recursive functions return the left-most minimum of every lane, the same
\* vector as the brute-force functions.
C5_RecursiveOnMonotone ==
    NonEmpty(matrix) =>
        /\ (call = "recursive_row_minima" /\ TotallyMonotone(matrix)) =>
              /\ out = brute_force_row_minima(matrix)
              /\ IsRowMinima(matrix, out.val)
        /\ (call = "recursive_column_minima" /\ TotallyMonotone(reversed_axes(matrix))) =>
              /\ out = brute_force_column_minima(matrix)
              /\ IsColumnMinima(matrix, out.val)

\* The recursion has run on a totally monotone matrix that is not Monge and
\* whose row minima are in more than one column.
C5_Witness ==
    /\ call = "recursive_row_minima"
    /\ TotallyMonotone(matrix) /\ ~MongeProperty(matrix)
    /\ matrix.rows = MaxRows /\ matrix.cols = MaxCols
    /\ \E i, k \in DOMAIN out.val : out.val[i] # out.val[k]

\* C6: on every matrix that is totally monotone as the crate documents it,
\* smawk_row_minima returns the vector of brute_force_row_minima and
\* smawk_column_minima the vector of brute_force_column_minima.
C6_SmawkOnTotallyMonotone ==
    (TotallyMonotone(matrix) /\ NonEmpty(matrix)) =>
        /\ call = "smawk_row_minima" => out = brute_force_row_minima(matrix)
        /\ call = "smawk_column_minima" => out = brute_force_column_minima(matrix)

\* C7: a row-minima request on a matrix with zero columns, and a
\* column-minima request on a matrix with zero rows, panics, whatever the
\* strategy.
C7_EmptyInputPanics ==
    /\ (call \in RowCalls /\ matrix.cols = 0) => out.panic
    /\ (call \in ColumnCalls /\ matrix.rows = 0) => out.panic

\* The corner sums of a 2 x 2 matrix, in exact integers.
LeftSum(mx) == mx.a[<<0, 0>>] + mx.a[<<1, 1>>]
RightSum(mx) == mx.a[<<0, 1>>] + mx.a[<<1, 0>>]
IsWindow(mx) == mx.rows = 2 /\ mx.cols = 2
Overflows(t, sum) == sum \notin TValues(t)

\* C8, as claimed: a window whose left-hand sum overflows while the
\* right-hand sum does not is deemed to hold, and one whose right-hand sum
\* overflows while the left-hand sum does not is deemed to fail.
C8_LeftOverflowHolds ==
    (call = "is_monge" /\ IsWindow(matrix)) =>
        /\ (Overflows(ty, LeftSum(matrix)) /\ ~Overflows(ty, RightSum(matrix))) =>
              out = Ok(TRUE)
        /\ (Overflows(ty, RightSum(matrix)) /\ ~Overflows(ty, LeftSum(matrix))) =>
              out = Ok(FALSE)

\* C8, amended: a window whose left-hand sum M[i,j] + M[i',j'] overflows
\* while the right-hand sum does not is deemed to FAIL (is_monge returns
\* false), and one whose right-hand sum overflows while the left-hand sum
\* does not is deemed to HOLD.
C8_LeftOverflowFails ==
    (call = "is_monge" /\ IsWindow(matrix)) =>
        /\ (Overflows(ty, LeftSum(matrix)) /\ ~Overflows(ty, RightSum(matrix))) =>
              out = Ok(FALSE)
        /\ (Overflows(ty, RightSum(matrix)) /\ ~Overflows(ty, LeftSum(matrix))) =>
              out = Ok(TRUE)

\* is_monge has judged a window whose left-hand sum alone overflows.
C8_Witness ==
    /\ call = "is_monge" /\ IsWindow(matrix)
    /\ Overflows(ty, LeftSum(matrix)) /\ ~Overflows(ty, RightSum(matrix))

\* The inequality of every adjacent window, in exact integers.
ExactWindows(mx) ==
    \A i \in 0..(mx.rows - 2) : \A j \in 0..(mx.cols - 2) :
        mx.a[<<i, j>>] + mx.a[<<i + 1, j + 1>>] <= mx.a[<<i, j + 1>>] + mx.a[<<i + 1, j>>]

IsConstant(mx) == \A p, q \in DOMAIN mx.a : mx.a[p] = mx.a[q]

\* C9: for an unsigned element type is_monge's verdict is that of the exact
\* inequality x + y <= z + w on every window, whether neither, one or both
\* of the corner sums overflow; every constant matrix yields true.
C9_UnsignedExact ==
    (call = "is_monge" /\ ~ty.signed) =>
        /\ out = Ok(ExactWindows(matrix))
        /\ IsConstant(matrix) => out = Ok(TRUE)

\* is_monge has judged an unsigned window both of whose sums overflow and
\* whose inequality fails.
C9_Witness ==
    /\ call = "is_monge" /\ ~ty.signed /\ IsWindow(matrix)
    /\ Overflows(ty, LeftSum(matrix)) /\ Overflows(ty, RightSum(matrix))
    /\ LeftSum(matrix) > RightSum(matrix)

\* Column j of the part above the diagonal: rows 0..j-1.
UpperLane(mx, j) == [k \in 1..j |-> mx.a[<<k - 1, j>>]]

\* v(0) = initial, and for j > 0 the left-most minimum of column j among the
\* rows above the diagonal, with its row.
OnlineExpected ==
    [j \in 0..(size - 1) |->
        IF j = 0 THEN <<0, initial>>
        ELSE LET r == CHOOSE r \in 0..(j - 1) : IsLeftmostMinimum(UpperLane(matrix, j), r)
             IN <<r, matrix.a[<<r, j>>]>>]

\* C2: for every size >= 1, every initial value and every accessor whose
\* entries above the diagonal form a Monge matrix, online_column_minima
\* returns exactly `size` pairs: (0, initial), then for each column j the
\* pair (r, M[r, j]) with r the smallest row i < j that minimises M[i, j].
C2_OnlineAgrees ==
    UpperMongeProperty(matrix) =>
        /\ pc # "panic"
        /\ pc = "done" => /\ out = Ok(OnlineExpected)
                          /\ VLen(out.val) = size

\* The engine has returned on a Monge accessor of the largest size, having
\* raised `base`, with minima in more than one row.
C2_Witness ==
    /\ pc = "done"
    /\ size = MaxSize
    /\ UpperMongeProperty(matrix)
    /\ base > 0
    /\ Cardinality({out.val[j][1] : j \in DOMAIN out.val}) >= 2

\* The accessor was called at rows whose minimum was computed, with the
\* finished part of result.
C10_CalledAfterComputed ==
    /\ \A p \in acc : p[1] <= calledAt
    /\ \A pre \in prefixes : pre = Slice(result, calledAt + 1)

\* An iteration leaves the finished entries of result as they are.
C10_FinishedIsFinal ==
    \A k \in 0..finished : k \in DOMAIN result' /\ result'[k] = result[k]

\* C10: matrix(prefix, i, j) is called only with i <= finished and
\* prefix = result[0..=finished]; an entry result[k] with k <= finished is
\* never modified by a later step, and is the value returned for column k.
C10_OnlineGuarantee ==
    /\ []C10_CalledAfterComputed
    /\ [][C10_FinishedIsFinal]_vars
    /\ [](pc = "done" => out = Ok(result))

\* A first-case iteration has run smawk_inner on at least three rows with
\* columns already finished behind it.
C10_Witness ==
    /\ pc = "loop"
    /\ taken = 1
    /\ calledAt >= 3
    /\ Cardinality({p[1] : p \in acc}) >= 3
    /\ prefixes # {}

\* C11: whatever the accessor, every matrix access of online_column_minima,
\* those of the embedded smawk_inner included, has i < j, i < size and
\* j < size, so that no assertion of m! fires and no iteration panics.
C11_AccessesInRange ==
    /\ pc # "panic"
    /\ \A p \in acc : p[1] < p[2] /\ p[1] < size /\ p[2] < size

\* A first-case iteration has run smawk_inner over several rows and columns
\* of an accessor that is not Monge above the diagonal.
C11_Witness ==
    /\ pc = "loop"
    /\ taken = 1
    /\ size = AnySize
    /\ ~UpperMongeProperty(matrix)
    /\ Cardinality({p[1] : p \in acc}) >= 2
    /\ Cardinality({p[2] : p \in acc}) >= 2

\* The calls of the SMAWK functions.
SmawkCalls == {"smawk_row_minima", "smawk_column_minima"}

\* The number of lanes a call answers for, and the length of each lane.
Lanes(mx) == IF call \in RowCalls THEN mx.rows ELSE mx.cols
LaneLen(mx) == IF call \in RowCalls THEN mx.cols ELSE mx.rows

\* C12: on every matrix with at least one row and one column, totally
\* monotone or not, smawk_row_minima and smawk_column_minima return without
\* a panic, with one index per lane, each within the lane.
C12_SmawkNeverPanics ==
    (call \in SmawkCalls /\ NonEmpty(matrix)) =>
        /\ ~out.panic
        /\ DOMAIN out.val = 0..(Lanes(matrix) - 1)
        /\ \A k \in DOMAIN out.val : out.val[k] \in 0..(LaneLen(matrix) - 1)

\* A SMAWK function has returned, on a matrix of the largest size that is not
\* totally monotone, a vector that is not the vector of minima.
C12_Witness ==
    /\ call = "smawk_row_minima"
    /\ matrix.rows = MaxRows /\ matrix.cols = MaxCols
    /\ ~TotallyMonotone(matrix)
    /\ ~out.panic
    /\ ~IsRowMinima(matrix, out.val)

\* The number of the four cases that the next iteration can take.
CasesEnabled ==
    Cardinality({k \in 1..4 : \/ k = 1 /\ InLoop /\ Case1Cond
                              \/ k = 2 /\ InLoop /\ Case2Cond
                              \/ k = 3 /\ InLoop /\ Case3Cond
                              \/ k = 4 /\ InLoop /\ Case4Cond})

\* While the loop condition holds exactly one case applies.
C13_OneCase ==
    (pc = "loop" /\ finished < size - 1) => CasesEnabled = 1

\* An iteration takes one of the four cases and adds one to `finished`.
C13_Advance ==
    (pc = "loop" /\ finished < size - 1) =>
        /\ taken' \in 1..4
        /\ finished' = finished + 1
        /\ pc' = "loop"

\* The function returns with finished = size - 1 and `size` entries.
C13_AtReturn ==
    pc = "done" => /\ finished = size - 1
                   /\ VLen(result) = size
                   /\ out = Ok(result)

\* C13: every iteration of the main loop takes exactly one of the four cases
\* and increases `finished` by exactly 1, starting from 0, so that the loop
\* ends after size - 1 iterations with finished = size - 1 and a result of
\* exactly `size` entries, and the function returns.
C13_LoopTerminates ==
    /\ finished = 0
    /\ []C13_OneCase
    /\ [][C13_Advance]_vars
    /\ []C13_AtReturn
    /\ <>(pc = "done")

\* The function has returned on an accessor of the largest size, after
\* MaxSize - 1 iterations, some of which raised `base`.
C13_Witness ==
    /\ pc = "done"
    /\ size = MaxSize
    /\ finished = MaxSize - 1
    /\ base > 0
    /\ taken \in 1..4

\* The part of mx above the diagonal is totally monotone for column minima:
\* wherever a lower row beats a higher one, it still beats it in every later
\* column that both rows reach.
UpperTotallyMonotone(mx) ==
    \A i \in 0..(mx.rows - 1) : \A i2 \in (i + 1)..(mx.rows - 1) :
    \A j \in (i2 + 1)..(mx.cols - 1) : \A j2 \in (j + 1)..(mx.cols - 1) :
        mx.a[<<i, j>>] > mx.a[<<i2, j>>] => mx.a[<<i, j2>>] > mx.a[<<i2, j2>>]

Range(s) == {s[k] : k \in 1..Len(s)}

\* s keeps some of the entries of t, in the order t has them; the row lists
\* of smawk_inner hold distinct indices.
IsSubsequence(s, t) ==
    /\ Range(s) \subseteq Range(t)
    /\ \A k \in 1..Len(s) : \A l \in (k + 1)..Len(s) :
           \E p \in 1..Len(t) : \E q \in (p + 1)..Len(t) : t[p] = s[k] /\ t[q] = s[l]

\* The activations whose reduce loop has run.
ReduceDone(k) == k < Len(frames) \/ spc # "call"

\* The row of the left-most minimum of column c among the rows of fr.
ColMinRow(fr, c) ==
    CHOOSE r \in Range(fr.rows) :
        \A q \in Range(fr.rows) :
            KeyLess(Accessor[<<r, c>>], r, Accessor[<<q, c>>], q) \/ q = r

\* What the reduce loop guarantees on any input.
ReduceShape(fr) ==
    /\ Len(fr.stack) <= Len(fr.cols)
    /\ IsSubsequence(fr.stack, fr.rows)
    /\ fr.rows # << >> => fr.stack # << >>

\* No eliminated row holds the left-most minimum of a column of fr.
ReduceKeepsMinima(fr) ==
    fr.rows # << >> =>
        \A c \in Range(fr.cols) : ColMinRow(fr, c) \in Range(fr.stack)

\* C15: after the reduce loop of smawk_inner the surviving rows are at most
\* cols.len() many, a subsequence of the input rows in their order, non-empty
\* when the input rows are, and, when the matrix is totally monotone, they
\* still hold the left-most minimum of every column in cols.
C15_ReducePhase ==
    \A k \in 1..Len(frames) :
        ReduceDone(k) =>
            /\ ReduceShape(frames[k])
            /\ TotallyMonotone(matrix) => ReduceKeepsMinima(frames[k])

\* ---------------------------------------------------------------------------
\* The columns at the even positions 0, 2, 4, ... of cols.
EvenPositions(cols) == [k \in 1..((Len(cols) + 1) \div 2) |-> cols[2 * k - 1]]

\* The columns at the odd positions 1, 3, 5, ... of cols.
OddPositions(cols) == [k \in 1..(Len(cols) \div 2) |-> cols[2 * k]]

\* Where the scan of the column at position c (0-based) of fr starts and
\* stops: at the minima of the neighbouring columns, or at the ends of the
\* surviving rows.
ScanFrom(fr, c) == IF c = 0 THEN fr.stack[1] ELSE mvec[fr.cols[c]]
ScanTo(fr, c) ==
    IF c = Len(fr.cols) - 1 THEN fr.stack[Len(fr.stack)] ELSE mvec[fr.cols[c + 2]]

\* row is the left-most minimum of column col among the surviving rows of fr
\* from lo to hi.
IsScanMinimum(fr, col, lo, hi, row) ==
    LET scanned == {r \in Range(fr.stack) : lo <= r /\ r <= hi}
    IN /\ row \in scanned
       /\ \A q \in scanned :
              KeyLess(Accessor[<<row, col>>], row, Accessor[<<q, col>>], q) \/ q = row

\* The fill-in loop of fr leaves the minima of the columns at the positions
\* of the given parity (c % 2) alone, as the recursive call set them, and
\* writes those of the other columns of fr, each by the scan between its
\* neighbours' minima.
FillDerives(fr, parity) ==
    /\ \A col \in DOMAIN mvec :
           (\A c \in 0..(Len(fr.cols) - 1) : fr.cols[c + 1] = col => c % 2 = parity)
               => mvec'[col] = mvec[col]
    /\ \A c \in 0..(Len(fr.cols) - 1) :
           c % 2 # parity =>
               IsScanMinimum(fr, fr.cols[c + 1], ScanFrom(fr, c), ScanTo(fr, c),
                             mvec'[fr.cols[c + 1]])

\* A fill-in loop has run to its end in this step and the activation returned.
Filled == spc = "fill" /\ frames' # frames

\* C16 as stated: the recursive call gets the surviving rows and the columns
\* at the even positions of cols, and the fill-in loop derives the minima of
\* the columns at the odd positions by the scan between neighbouring minima.
C16_RecursesOnEvenColumns ==
    /\ [](\A k \in 1..(Len(frames) - 1) :
              /\ frames[k + 1].rows = frames[k].stack
              /\ frames[k + 1].cols = EvenPositions(frames[k].cols))
    /\ [][Filled => FillDerives(TopFrame, 0)]_vars

\* C16, amended: the recursive call gets the surviving rows and the columns
\* at the odd positions 1, 3, 5, ... of cols, half of the width rounded down,
\* and the fill-in loop derives the minima of the columns at the even
\* positions 0, 2, 4, ..., each as the left-most minimum among the surviving
\* rows between the minima of its neighbouring columns, leaving the minima of
\* the odd positions as the recursive call set them.
C16_RecursesOnOddColumns ==
    /\ [](\A k \in 1..(Len(frames) - 1) :
              /\ frames[k + 1].rows = frames[k].stack
              /\ frames[k + 1].cols = OddPositions(frames[k].cols)
              /\ Len(frames[k + 1].cols) = Len(frames[k].cols) \div 2)
    /\ [][Filled => FillDerives(TopFrame, 1)]_vars

\* The outermost activation is about to fill in its even positions after the
\* recursive call resolved an odd position to a row other than the first.
C16_Witness ==
    /\ spc = "fill"
    /\ Len(frames) = 1
    /\ Len(TopFrame.cols) >= 3
    /\ mvec[TopFrame.cols[2]] > 0

\* ---------------------------------------------------------------------------
\* The bounds the loop of online_column_minima keeps between its indices
\* and the length of result.
IndicesOrdered ==
    /\ base <= finished
    /\ finished <= tentative
    /\ tentative <= size - 1
    /\ VLen(result) >= tentative + 1

\* How one iteration may move base and tentative.
IndicesMove ==
    /\ base' >= base
    /\ tentative' < tentative => tentative' = finished'

\* C17: for any accessor and size >= 1, at every boundary between iterations
\* of the loop of online_column_minima (and at its return)
\* base <= finished <= tentative <= size - 1 and
\* result.len() >= tentative + 1, so no read of result is out of bounds;
\* base never decreases, and tentative decreases only to the new value of
\* finished.
C17_StateInvariant ==
    /\ [](pc # "panic" /\ IndicesOrdered)
    /\ [][IndicesMove]_vars

\* The second or fourth case has just pulled tentative back to `finished`
\* over columns result already holds, and moved base up.
C17_Witness ==
    /\ pc = "loop"
    /\ taken \in {2, 4}
    /\ tentative = finished
    /\ base = finished - 1
    /\ base > 0
    /\ VLen(result) > tentative + 1

====
